---- MODULE Spec2Model ----
(***************************************************************************)
(* Knuth-Plass line breaking of github.com/SCKelemen/text                  *)
(* (WrapKnuthPlass and the helpers it calls, plus the greedy Wrap it falls *)
(* back to).                                                               *)
(*                                                                         *)
(* Numbers.  The Go code computes in float64.  Here every width is an      *)
(* integer number of cells, MaxWidth is an integer and Tolerance is given  *)
(* in halves, so each ratio is the exact rational  num / |MaxWidth|  and   *)
(* only its numerator is stored.  Demerits are stored multiplied by        *)
(* |MaxWidth|^6, the common denominator of (LinePenalty+badness+penalty)^2 *)
(* for every line of one call, which keeps every comparison of the code    *)
(* exact.                                                                  *)
(*                                                                         *)
(* Text.  A text is a sequence of runes; a rune is a one-character string. *)
(* "a" and "-" are narrow (1 cell), "W" stands for a wide (CJK) rune of    *)
(* 2 cells, " " is the ASCII space.  Each of these is a grapheme cluster   *)
(* of its own.                                                             *)
(***************************************************************************)
EXTENDS Integers, Sequences, FiniteSets, TLC

\* ------------------------------------------------------------------ bounds
MaxLen == 4          \* longest text, in runes
MaxMaxWidth == 3     \* largest opts.MaxWidth
NegMaxWidth == 1     \* opts.MaxWidth ranges down to -NegMaxWidth
MaxLenTwo == 3       \* longest text when two calls run together
MaxDen == 2          \* largest denominator of a ratio passed to a function on its own
MaxNum == 12         \* largest numerator of such a ratio
MaxTolerance2 == 10  \* largest tolerance passed to calculateBadness on its own, in halves

Runes == {"a", "-", "W", " "}
MaxWidths == (0 - NegMaxWidth)..MaxMaxWidth
\* opts.Tolerance in halves: 0.5, 1.0, 2.0 (the values of TestWrapKnuthPlass_Tolerance)
Tolerances == {1, 2, 4}
LinePenalties == {0, 10}
HyphenPenalties == {50, -10}

\* ------------------------------------------------------ program constants
DefaultTolerance2 == 2      \* Tolerance: 1.0, in halves
DefaultHyphenPenalty == 50
DefaultLinePenalty == 10
InfinitelyBad == 10000
FitnessPenalty == 100
BadnessFactor == 100

VARIABLES
    text,       \* the argument text of WrapKnuthPlass
    opts,       \* the argument opts (KnuthPlassOptions)
    pc,         \* where the call is
    boxes,      \* boxes := t.textToBoxes(text)
    i,          \* loop index of findOptimalBreakpoints (0-based, as in the code)
    nodes,      \* every *breakpoint allocated so far; a pointer is an index, 0 is nil
    active,     \* the slice active: a sequence of pointers
    positions,  \* the result of findOptimalBreakpoints
    lines,      \* the result of WrapKnuthPlass
    other,      \* a second call of WrapKnuthPlass on the same *Text: its locals
    ratio,          \* argument of calculateFitness / calculateBadness (numerator)
    fitnessResult,  \* <<r>> once calculateFitness has returned r
    badnessResult   \* <<r>> once calculateBadness has returned r

\* The locals of the call in progress.
call == <<text, opts, pc, boxes, i, nodes, active, positions, lines>>

\* The arguments and results of the two functions called on their own.
eval == <<ratio, fitnessResult, badnessResult>>

vars == <<text, opts, pc, boxes, i, nodes, active, positions, lines,
          other, ratio, fitnessResult, badnessResult>>

\* ----------------------------------------------------------------- helpers
Abs(x) == IF x < 0 THEN 0 - x ELSE x
Cube(x) == x * x * x

Texts == UNION {[1..n -> Runes] : n \in 0..MaxLen}

KnuthPlassOptions ==
    [MaxWidth : MaxWidths, Tolerance2 : Tolerances, FitnessClass : BOOLEAN,
     Hyphenate : {FALSE}, HyphenPenalty : HyphenPenalties, LinePenalty : LinePenalties]

DefaultKnuthPlassOptions(maxWidth) ==
    [MaxWidth |-> maxWidth, Tolerance2 |-> DefaultTolerance2, FitnessClass |-> TRUE,
     Hyphenate |-> FALSE, HyphenPenalty |-> DefaultHyphenPenalty,
     LinePenalty |-> DefaultLinePenalty]

\* MeasureFunc of the terminal configuration, on the runes of the model.
TerminalMeasure(r) == IF r = "W" THEN 2 ELSE 1

RECURSIVE Width(_)
Width(s) == IF s = <<>> THEN 0 ELSE TerminalMeasure(Head(s)) + Width(Tail(s))

\* strings.TrimSpace; the space is the only white space among Runes.
RECURSIVE TrimLeft(_)
TrimLeft(s) == IF s # <<>> /\ Head(s) = " " THEN TrimLeft(Tail(s)) ELSE s
RECURSIVE TrimRight(_)
TrimRight(s) ==
    IF s # <<>> /\ s[Len(s)] = " " THEN TrimRight(SubSeq(s, 1, Len(s) - 1)) ELSE s
TrimSpace(s) == TrimRight(TrimLeft(s))

\* strings.Split(s, " "): n separators give n+1 parts, empty parts included.
RECURSIVE SplitFrom(_, _, _)
SplitFrom(s, cur, acc) ==
    IF s = <<>> THEN Append(acc, cur)
    ELSE IF Head(s) = " " THEN SplitFrom(Tail(s), <<>>, Append(acc, cur))
    ELSE SplitFrom(Tail(s), Append(cur, Head(s)), acc)
Split(s) == SplitFrom(s, <<>>, <<>>)

\* runes[from:to] of Go, 0-based and half-open.
Slice(s, from, to) == SubSeq(s, from + 1, to)

\* ------------------------------------------------------------ greedy Wrap
Line(content, width, start, end) ==
    [Content |-> content, Width |-> width, Start |-> start, End |-> end]

\* WrapLoop testing the width before the grapheme is added.
RECURSIVE WrapLoopLate(_, _, _, _, _, _, _)
WrapLoopLate(graphemes, g, maxWidth, acc, currentLine, currentWidth, lineStart) ==
    IF g > Len(graphemes)
    THEN IF currentLine # <<>>
         THEN Append(acc, Line(currentLine, currentWidth, lineStart,
                               lineStart + Len(currentLine)))
         ELSE acc
    ELSE LET gWidth == TerminalMeasure(graphemes[g]) IN
         IF currentWidth > maxWidth /\ currentWidth > 0
         THEN WrapLoopLate(graphemes, g + 1, maxWidth,
                           Append(acc, Line(currentLine, currentWidth, lineStart,
                                            lineStart + Len(currentLine))),
                           <<graphemes[g]>>, gWidth, g - 1)
         ELSE WrapLoopLate(graphemes, g + 1, maxWidth, acc,
                           Append(currentLine, graphemes[g]), currentWidth + gWidth,
                           lineStart)

RECURSIVE WrapLoop(_, _, _, _, _, _, _)
WrapLoop(graphemes, g, maxWidth, acc, currentLine, currentWidth, lineStart) ==
    IF g > Len(graphemes)
    THEN IF currentLine # <<>>
         THEN Append(acc, Line(currentLine, currentWidth, lineStart,
                               lineStart + Len(currentLine)))
         ELSE acc
    ELSE LET gWidth == TerminalMeasure(graphemes[g]) IN
         IF currentWidth + gWidth > maxWidth /\ currentWidth > 0
         THEN WrapLoop(graphemes, g + 1, maxWidth,
                       Append(acc, Line(currentLine, currentWidth, lineStart,
                                        lineStart + Len(currentLine))),
                       <<graphemes[g]>>, gWidth, g - 1)
         ELSE WrapLoop(graphemes, g + 1, maxWidth, acc,
                       Append(currentLine, graphemes[g]), currentWidth + gWidth,
                       lineStart)

\* Wrap with the guard  opts.MaxWidth < 0.
WrapStrictGuard(t, maxWidth) ==
    IF maxWidth < 0
    THEN <<Line(t, Width(t), 0, Len(t))>>
    ELSE WrapLoop(t, 1, maxWidth, <<>>, <<>>, 0, 0)

Wrap(t, maxWidth) ==
    IF maxWidth <= 0
    THEN <<Line(t, Width(t), 0, Len(t))>>
    ELSE WrapLoop(t, 1, maxWidth, <<>>, <<>>, 0, 0)

\* ------------------------------------------------------------ textToBoxes
Box(content, position, isGlue) ==
    [content |-> content, width |-> Width(content), position |-> position,
     isGlue |-> isGlue, penalty |-> 0]

RECURSIVE BoxesFrom(_, _, _, _)
BoxesFrom(parts, k, position, acc) ==
    IF k > Len(parts) THEN acc
    ELSE IF parts[k] = <<>> THEN BoxesFrom(parts, k + 1, position, acc)
    ELSE LET word == Append(acc, Box(parts[k], position, FALSE))
             after == position + Len(parts[k])
         IN  IF k < Len(parts)
             THEN BoxesFrom(parts, k + 1, after + 1,
                            Append(word, Box(<<" ">>, after, TRUE)))
             ELSE BoxesFrom(parts, k + 1, after, word)

textToBoxes(t) == BoxesFrom(Split(t), 1, 0, <<>>)

\* ------------------------------------------------- evaluation of one line
\* Sum of boxes[start..end] (0-based, inclusive), cut at len(boxes).
RECURSIVE calculateLineWidth(_, _, _)
calculateLineWidth(bx, start, end) ==
    IF start > end \/ start >= Len(bx) THEN 0
    ELSE bx[start + 1].width + calculateLineWidth(bx, start + 1, end)

\* Denominator of every ratio of the call.
Den(o) == Abs(o.MaxWidth)

\* Numerator of ratio := (opts.MaxWidth - lineWidth) / opts.MaxWidth over Den.
RatioNum(o, lineWidth) ==
    IF o.MaxWidth > 0 THEN o.MaxWidth - lineWidth ELSE lineWidth - o.MaxWidth

\* The first test of the inner loop as ratio <= -1.
RatioAtOrBelowMinusOne(o, lineWidth) ==
    IF o.MaxWidth = 0 THEN lineWidth > 0
    ELSE RatioNum(o, lineWidth) <= 0 - Den(o)

\* ratio < -1.  With MaxWidth = 0 the quotient is -Inf for a positive width.
RatioBelowMinusOne(o, lineWidth) ==
    IF o.MaxWidth = 0 THEN lineWidth > 0
    ELSE RatioNum(o, lineWidth) < 0 - Den(o)

\* calculateBadness without the test ratio < -1.
calculateBadnessNoLowerLimit(o, num) ==
    IF 2 * num > o.Tolerance2 * Den(o) THEN InfinitelyBad * Cube(Den(o))
    ELSE BadnessFactor * Cube(Abs(num))

\* calculateBadness, multiplied by Den^3.
calculateBadness(o, num) ==
    IF num < 0 - Den(o) THEN InfinitelyBad * Cube(Den(o))
    ELSE IF 2 * num > o.Tolerance2 * Den(o) THEN InfinitelyBad * Cube(Den(o))
    ELSE BadnessFactor * Cube(Abs(num))

TooBad(o, num) == calculateBadness(o, num) >= InfinitelyBad * Cube(Den(o))

\* calculateFitness with ratio < 1.0 for class 2.
calculateFitnessOpenAtOne(o, num) ==
    IF 2 * num < 0 - Den(o) THEN 0
    ELSE IF 2 * num <= Den(o) THEN 1
    ELSE IF num < Den(o) THEN 2
    ELSE 3

calculateFitness(o, num) ==
    IF 2 * num < 0 - Den(o) THEN 0
    ELSE IF 2 * num <= Den(o) THEN 1
    ELSE IF num <= Den(o) THEN 2
    ELSE 3

\* penalty of a break after box b
BreakPenalty(o, b) ==
    IF b.content[Len(b.content)] = "-" THEN o.HyphenPenalty ELSE b.penalty

\* The demerits of a line without opts.LinePenalty.
DemeritsNoLinePenalty(o, num, b) ==
    LET x == BreakPenalty(o, b) * Cube(Den(o)) + calculateBadness(o, num)
    IN  x * x

\* math.Pow(opts.LinePenalty+badness+penalty, 2), multiplied by Den^6.
Demerits(o, num, b) ==
    LET x == (o.LinePenalty + BreakPenalty(o, b)) * Cube(Den(o)) + calculateBadness(o, num)
    IN  x * x

\* The fitness penalty for any change of class.
FitnessDemeritsAnyChange(o, fitness, prevFitness) ==
    IF o.FitnessClass /\ Abs(fitness - prevFitness) > 0
    THEN FitnessPenalty * Cube(Den(o)) * Cube(Den(o))
    ELSE 0

FitnessDemerits(o, fitness, prevFitness) ==
    IF o.FitnessClass /\ Abs(fitness - prevFitness) > 1
    THEN FitnessPenalty * Cube(Den(o)) * Cube(Den(o))
    ELSE 0

\* ------------------------------------------------------------- the search
Sentinel ==
    [position |-> 0, demerits |-> 0, ratio |-> 0, line |-> 0, fitness |-> 1, prev |-> 0]

\* NewBreakpoint recording the box index i instead of i + 1.
NewBreakpointAtIndex(o, bx, heap, a, ix) ==
    LET lineWidth == calculateLineWidth(bx, heap[a].position, ix)
        num == RatioNum(o, lineWidth)
        fitness == calculateFitness(o, num)
    IN  IF RatioBelowMinusOne(o, lineWidth) THEN <<>>
        ELSE IF TooBad(o, num) THEN <<>>
        ELSE <<[position |-> ix,
                demerits |-> heap[a].demerits + Demerits(o, num, bx[ix + 1])
                             + FitnessDemerits(o, fitness, heap[a].fitness),
                ratio |-> num,
                line |-> heap[a].line + 1,
                fitness |-> fitness,
                prev |-> a]>>

\* NewBreakpoint giving the new breakpoint the line number of activeNode.
NewBreakpointSameLine(o, bx, heap, a, ix) ==
    LET lineWidth == calculateLineWidth(bx, heap[a].position, ix)
        num == RatioNum(o, lineWidth)
        fitness == calculateFitness(o, num)
    IN  IF RatioBelowMinusOne(o, lineWidth) THEN <<>>
        ELSE IF TooBad(o, num) THEN <<>>
        ELSE <<[position |-> ix + 1,
                demerits |-> heap[a].demerits + Demerits(o, num, bx[ix + 1])
                             + FitnessDemerits(o, fitness, heap[a].fitness),
                ratio |-> num,
                line |-> heap[a].line,
                fitness |-> fitness,
                prev |-> a]>>

\* The candidate emitted from active node a (a pointer) at box index ix, or
\* <<>> when the two `continue`s of the inner loop skip it.
NewBreakpoint(o, bx, heap, a, ix) ==
    LET lineWidth == calculateLineWidth(bx, heap[a].position, ix)
        num == RatioNum(o, lineWidth)
        fitness == calculateFitness(o, num)
    IN  IF RatioBelowMinusOne(o, lineWidth) THEN <<>>
        ELSE IF TooBad(o, num) THEN <<>>
        ELSE <<[position |-> ix + 1,
                demerits |-> heap[a].demerits + Demerits(o, num, bx[ix + 1])
                             + FitnessDemerits(o, fitness, heap[a].fitness),
                ratio |-> num,
                line |-> heap[a].line + 1,
                fitness |-> fitness,
                prev |-> a]>>

RECURSIVE NewActive(_, _, _, _, _)
NewActive(o, bx, heap, act, ix) ==
    IF act = <<>> THEN <<>>
    ELSE NewBreakpoint(o, bx, heap, Head(act), ix) \o NewActive(o, bx, heap, Tail(act), ix)

\* The first pointer of bps with the least demerits (the scan with a strict <).
RECURSIVE BestOf(_, _, _)
BestOf(heap, bps, best) ==
    IF bps = <<>> THEN best
    ELSE IF heap[Head(bps)].demerits < heap[best].demerits
         THEN BestOf(heap, Tail(bps), Head(bps))
         ELSE BestOf(heap, Tail(bps), best)

LinesOf(heap, bps) == {heap[bps[k]].line : k \in 1..Len(bps)}

\* The orders in which `for _, bps := range byLine` may visit the keys.
MapOrders(keys) ==
    {f \in [1..Cardinality(keys) -> keys] : \A x, y \in DOMAIN f : x # y => f[x] # f[y]}

\* pruneBreakpoints keeping the first breakpoint of each line number.
pruneBreakpointsKeepFirst(heap, bps, order) ==
    [k \in 1..Len(order) |->
        Head(SelectSeq(bps, LAMBDA p : heap[p].line = order[k]))]

pruneBreakpoints(heap, bps, order) ==
    [k \in 1..Len(order) |->
        LET byLine == SelectSeq(bps, LAMBDA p : heap[p].line = order[k])
        IN  BestOf(heap, Tail(byLine), Head(byLine))]

\* Final selection: minDemerits starts at math.MaxFloat64, above every sum here.
SelectBestNode(heap, act) ==
    IF act = <<>> THEN 0 ELSE BestOf(heap, Tail(act), Head(act))

\* Reconstruct keeping the start breakpoint (node.position >= 0).
RECURSIVE ReconstructWithStart(_, _, _)
ReconstructWithStart(heap, node, acc) ==
    IF node = 0 THEN acc
    ELSE ReconstructWithStart(heap, heap[node].prev, <<heap[node].position>> \o acc)

\* Reconstruct appending instead of prepending.
RECURSIVE ReconstructAppending(_, _, _)
ReconstructAppending(heap, node, acc) ==
    IF node = 0 THEN acc
    ELSE ReconstructAppending(heap, heap[node].prev,
                              IF heap[node].position > 0
                              THEN Append(acc, heap[node].position)
                              ELSE acc)

RECURSIVE Reconstruct(_, _, _)
Reconstruct(heap, node, acc) ==
    IF node = 0 THEN acc
    ELSE Reconstruct(heap, heap[node].prev,
                     IF heap[node].position > 0 THEN <<heap[node].position>> \o acc
                     ELSE acc)

\* ----------------------------------------------------- breakpointsToLines
\* breakpointsToLines without the final line of the remaining text.
RECURSIVE LinesFromNoRemainder(_, _, _, _, _)
LinesFromNoRemainder(runes, bx, bps, start, acc) ==
    IF bps = <<>> THEN acc
    ELSE LET breakPos == IF Head(bps) > Len(bx) THEN Len(bx) ELSE Head(bps)
             boxEnd == IF breakPos > 0 /\ breakPos <= Len(bx)
                       THEN bx[breakPos].position + Len(bx[breakPos].content)
                       ELSE 0
             textPos == IF boxEnd > Len(runes) THEN Len(runes) ELSE boxEnd
             content == TrimSpace(Slice(runes, start, textPos))
             next == IF textPos < Len(runes) /\ runes[textPos + 1] = " "
                     THEN textPos + 1 ELSE textPos
         IN  LinesFromNoRemainder(runes, bx, Tail(bps), next,
                                  IF content # <<>>
                                  THEN Append(acc, Line(content, Width(content), start,
                                                        start + Len(content)))
                                  ELSE acc)

RECURSIVE LinesFrom(_, _, _, _, _)
LinesFrom(runes, bx, bps, start, acc) ==
    IF bps = <<>>
    THEN IF start < Len(runes)
         THEN LET content == TrimSpace(Slice(runes, start, Len(runes)))
              IN  IF content # <<>>
                  THEN Append(acc, Line(content, Width(content), start, Len(runes)))
                  ELSE acc
         ELSE acc
    ELSE LET breakPos == IF Head(bps) > Len(bx) THEN Len(bx) ELSE Head(bps)
             boxEnd == IF breakPos > 0 /\ breakPos <= Len(bx)
                       THEN bx[breakPos].position + Len(bx[breakPos].content)
                       ELSE 0
             textPos == IF boxEnd > Len(runes) THEN Len(runes) ELSE boxEnd
             \* runes[start:textPos] panics when start > textPos
             content == TrimSpace(Slice(runes, start, textPos))
             next == IF textPos < Len(runes) /\ runes[textPos + 1] = " "
                     THEN textPos + 1 ELSE textPos
         IN  LinesFrom(runes, bx, Tail(bps), next,
                       IF content # <<>>
                       THEN Append(acc, Line(content, Width(content), start,
                                             start + Len(content)))
                       ELSE acc)

breakpointsToLines(t, bx, bps) == LinesFrom(t, bx, bps, 0, <<>>)

\* The bounds checks Go makes while breakpointsToLines runs: runes[start:textPos]
\* needs 0 <= start <= textPos <= len(runes), runes[start:] needs start <= len(runes).
RECURSIVE SlicesInRange(_, _, _, _)
SlicesInRange(runes, bx, bps, start) ==
    IF bps = <<>> THEN 0 <= start /\ start <= Len(runes)
    ELSE LET breakPos == IF Head(bps) > Len(bx) THEN Len(bx) ELSE Head(bps)
             boxEnd == IF breakPos > 0 /\ breakPos <= Len(bx)
                       THEN bx[breakPos].position + Len(bx[breakPos].content)
                       ELSE 0
             textPos == IF boxEnd > Len(runes) THEN Len(runes) ELSE boxEnd
             next == IF textPos < Len(runes) /\ runes[textPos + 1] = " "
                     THEN textPos + 1 ELSE textPos
         IN  /\ 0 <= start /\ start <= textPos /\ textPos <= Len(runes)
             /\ SlicesInRange(runes, bx, Tail(bps), next)

\* ------------------------------------------------------------ the actions
\* WrapKnuthPlass without the return for no boxes.
AfterBoxesNoReturn(bx) == "search"

\* if len(boxes) == 0 { return nil }
AfterBoxes(bx) == IF Len(bx) = 0 THEN "done" ELSE "search"

\* The locals of a call as one value.
CallState(t, o, at) ==
    [text |-> t, opts |-> o, pc |-> at, boxes |-> <<>>, i |-> 0, nodes |-> <<>>,
     active |-> <<>>, positions |-> <<>>, lines |-> <<>>]

\* No second call.
NoCall == CallState(<<>>, DefaultKnuthPlassOptions(0), "none")

Init ==
    /\ text \in Texts
    /\ opts \in KnuthPlassOptions
    /\ pc = "call"
    /\ boxes = <<>>
    /\ i = 0
    /\ nodes = <<>>
    /\ active = <<>>
    /\ positions = <<>>
    /\ lines = <<>>
    /\ other = NoCall
    /\ ratio = 0
    /\ fitnessResult = <<>>
    /\ badnessResult = <<>>

\* WrapKnuthPlass up to the loop of findOptimalBreakpoints: textToBoxes, the
\* return of nil for no boxes, the start breakpoint.
Enter ==
    /\ pc = "call"
    /\ boxes' = textToBoxes(text)
    /\ pc' = AfterBoxes(boxes')
    /\ IF Len(boxes') = 0
       THEN UNCHANGED <<nodes, active>>
       ELSE /\ nodes' = <<Sentinel>>
            /\ active' = <<1>>
    /\ UNCHANGED <<text, opts, i, positions, lines>>
    /\ UNCHANGED <<other, eval>>

\* One iteration of the outer loop at a glue box.
SkipGlue ==
    /\ pc = "search"
    /\ i < Len(boxes)
    /\ boxes[i + 1].isGlue
    /\ i' = i + 1
    /\ UNCHANGED <<text, opts, pc, boxes, nodes, active, positions, lines>>
    /\ UNCHANGED <<other, eval>>

\* The iteration at a word box with `active = newActive` in place of the append.
TryBreakReplacing ==
    /\ pc = "search"
    /\ i < Len(boxes)
    /\ ~boxes[i + 1].isGlue
    /\ \E newActive \in {NewActive(opts, boxes, nodes, active, i)} :
       \E heap \in {nodes \o newActive} :
       \E merged \in {[k \in 1..Len(newActive) |-> Len(nodes) + k]} :
           IF Len(newActive) > 0
           THEN /\ nodes' = heap
                /\ \E order \in MapOrders(LinesOf(heap, merged)) :
                       active' = pruneBreakpoints(heap, merged, order)
           ELSE UNCHANGED <<nodes, active>>
    /\ i' = i + 1
    /\ UNCHANGED <<text, opts, pc, boxes, positions, lines>>
    /\ UNCHANGED <<other, eval>>

\* One iteration of the outer loop at a word box: emit, append, prune.
TryBreak ==
    /\ pc = "search"
    /\ i < Len(boxes)
    /\ ~boxes[i + 1].isGlue
    /\ \E newActive \in {NewActive(opts, boxes, nodes, active, i)} :
       \E heap \in {nodes \o newActive} :
       \E merged \in {active \o [k \in 1..Len(newActive) |-> Len(nodes) + k]} :
           IF Len(newActive) > 0
           THEN /\ nodes' = heap
                /\ \E order \in MapOrders(LinesOf(heap, merged)) :
                       active' = pruneBreakpoints(heap, merged, order)
           ELSE UNCHANGED <<nodes, active>>
    /\ i' = i + 1
    /\ UNCHANGED <<text, opts, pc, boxes, positions, lines>>
    /\ UNCHANGED <<other, eval>>

\* The end of findOptimalBreakpoints: final selection and reconstruction
\* (nil for no boxes and for best == nil).
SelectBest ==
    /\ pc = "search"
    /\ i >= Len(boxes)
    /\ positions' = Reconstruct(nodes, SelectBestNode(nodes, active), <<>>)
    /\ pc' = IF Len(positions') = 0 THEN "fallback" ELSE "materialize"
    /\ UNCHANGED <<text, opts, boxes, i, nodes, active, lines>>
    /\ UNCHANGED <<other, eval>>

\* return t.Wrap(text, WrapOptions{MaxWidth: opts.MaxWidth})
GreedyFallback ==
    /\ pc = "fallback"
    /\ lines' = Wrap(text, opts.MaxWidth)
    /\ pc' = "done"
    /\ UNCHANGED <<text, opts, boxes, i, nodes, active, positions>>
    /\ UNCHANGED <<other, eval>>

\* return t.breakpointsToLines(text, boxes, breakpoints)
Materialize ==
    /\ pc = "materialize"
    /\ lines' = breakpointsToLines(text, boxes, positions)
    /\ pc' = "done"
    /\ UNCHANGED <<text, opts, boxes, i, nodes, active, positions>>
    /\ UNCHANGED <<other, eval>>

Next == Enter \/ SkipGlue \/ TryBreak \/ SelectBest \/ GreedyFallback \/ Materialize

Spec == Init /\ [][Next]_vars

\* ------------------------------------------- two calls on the same *Text
\* The steps a call can take from the locals s: the actions above, on a value.
CallSteps(s) ==
    IF s.pc = "call"
    THEN LET bx == textToBoxes(s.text)
         IN  {[s EXCEPT !.boxes = bx, !.pc = AfterBoxes(bx),
                        !.nodes = IF Len(bx) = 0 THEN s.nodes ELSE <<Sentinel>>,
                        !.active = IF Len(bx) = 0 THEN s.active ELSE <<1>>]}
    ELSE IF s.pc = "search" /\ s.i < Len(s.boxes)
    THEN IF s.boxes[s.i + 1].isGlue
         THEN {[s EXCEPT !.i = s.i + 1]}
         ELSE LET newActive == NewActive(s.opts, s.boxes, s.nodes, s.active, s.i)
                  heap == s.nodes \o newActive
                  merged == s.active \o [k \in 1..Len(newActive) |-> Len(s.nodes) + k]
              IN  IF Len(newActive) > 0
                  THEN {[s EXCEPT !.i = s.i + 1, !.nodes = heap,
                                  !.active = pruneBreakpoints(heap, merged, order)] :
                           order \in MapOrders(LinesOf(heap, merged))}
                  ELSE {[s EXCEPT !.i = s.i + 1]}
    ELSE IF s.pc = "search"
    THEN LET ps == Reconstruct(s.nodes, SelectBestNode(s.nodes, s.active), <<>>)
         IN  {[s EXCEPT !.positions = ps,
                        !.pc = IF Len(ps) = 0 THEN "fallback" ELSE "materialize"]}
    ELSE IF s.pc = "fallback"
    THEN {[s EXCEPT !.lines = Wrap(s.text, s.opts.MaxWidth), !.pc = "done"]}
    ELSE IF s.pc = "materialize"
    THEN {[s EXCEPT !.lines = breakpointsToLines(s.text, s.boxes, s.positions),
                    !.pc = "done"]}
    ELSE {}

RECURSIVE Reverse(_)
Reverse(t) == IF t = <<>> THEN <<>> ELSE Append(Reverse(Tail(t)), Head(t))

\* Both calls use the same valid options (the defaults, or LinePenalty 0, with
\* which the search result can be returned); the second call wraps the same
\* paragraph or another one (the first read backwards).
TwoOptions ==
    {o \in KnuthPlassOptions :
        /\ o.MaxWidth > 0 /\ o.Tolerance2 = DefaultTolerance2 /\ o.FitnessClass
        /\ o.HyphenPenalty = DefaultHyphenPenalty}

InitTwo ==
    /\ text \in {t \in Texts : Len(t) <= MaxLenTwo}
    /\ opts \in TwoOptions
    /\ pc = "call"
    /\ boxes = <<>>
    /\ i = 0
    /\ nodes = <<>>
    /\ active = <<>>
    /\ positions = <<>>
    /\ lines = <<>>
    /\ other \in {CallState(t, opts, "call") : t \in {text, Reverse(text)}}
    /\ ratio = 0
    /\ fitnessResult = <<>>
    /\ badnessResult = <<>>

\* A step of the second call that keeps its candidate list in a variable
\* shared with the first call.
OtherStepSharedActive ==
    /\ \E s \in CallSteps([other EXCEPT !.active = active]) :
           /\ other' = s
           /\ active' = s.active
    /\ UNCHANGED <<text, opts, pc, boxes, i, nodes, positions, lines, eval>>

\* A step of the second call: it reads and writes its own locals only.
OtherStep ==
    /\ \E s \in CallSteps(other) : other' = s
    /\ UNCHANGED <<call, eval>>

NextTwo == Next \/ OtherStep

SpecTwo == InitTwo /\ [][NextTwo]_vars

\* Two calls on the same text whose options differ in Hyphenate only.
InitHyphenate ==
    /\ text \in {t \in Texts : Len(t) <= MaxLenTwo}
    /\ opts \in TwoOptions
    /\ pc = "call"
    /\ boxes = <<>>
    /\ i = 0
    /\ nodes = <<>>
    /\ active = <<>>
    /\ positions = <<>>
    /\ lines = <<>>
    /\ other = CallState(text, [opts EXCEPT !.Hyphenate = ~opts.Hyphenate], "call")
    /\ ratio = 0
    /\ fitnessResult = <<>>
    /\ badnessResult = <<>>

SpecHyphenate == InitHyphenate /\ [][NextTwo]_vars

\* ------------------------------- calculateFitness and calculateBadness alone
\* The functions are called with the ratio  ratio / Den(opts)  and opts.Tolerance.
EvalOptions ==
    [MaxWidth : 1..MaxDen, Tolerance2 : Tolerances \cup {MaxTolerance2},
     FitnessClass : {TRUE}, Hyphenate : {FALSE},
     HyphenPenalty : {DefaultHyphenPenalty}, LinePenalty : {DefaultLinePenalty}]

InitEval ==
    /\ text = <<>>
    /\ opts \in EvalOptions
    /\ pc = "eval"
    /\ boxes = <<>>
    /\ i = 0
    /\ nodes = <<>>
    /\ active = <<>>
    /\ positions = <<>>
    /\ lines = <<>>
    /\ other = NoCall
    /\ ratio \in (0 - MaxNum)..MaxNum
    /\ fitnessResult = <<>>
    /\ badnessResult = <<>>

CalcFitness ==
    /\ pc = "eval"
    /\ fitnessResult = <<>>
    /\ fitnessResult' = <<calculateFitness(opts, ratio)>>
    /\ UNCHANGED <<call, other, ratio, badnessResult>>

CalcBadness ==
    /\ pc = "eval"
    /\ badnessResult = <<>>
    /\ badnessResult' = <<calculateBadness(opts, ratio)>>
    /\ UNCHANGED <<call, other, ratio, fitnessResult>>

NextEval == CalcFitness \/ CalcBadness

SpecEval == InitEval /\ [][NextEval]_vars

\* ------------------------------------------------- vocabulary of the claims
Done == pc = "done"
Searched == pc \in {"fallback", "materialize", "done"} /\ boxes # <<>>

\* The space-delimited words of a text, in order.
Words(t) == SelectSeq(Split(t), LAMBDA w : w # <<>>)
HasWord(t) == \E k \in 1..Len(t) : t[k] # " "

RECURSIVE JoinWithSpace(_)
JoinWithSpace(ss) ==
    IF ss = <<>> THEN <<>>
    ELSE IF Len(ss) = 1 THEN ss[1]
    ELSE ss[1] \o <<" ">> \o JoinWithSpace(Tail(ss))

Contents(ls) == [k \in 1..Len(ls) |-> ls[k].Content]
\* The text with every run of spaces collapsed and boundary spaces removed.
Collapsed(t) == JoinWithSpace(Words(t))

\* w <= MaxWidth * (1 + Tolerance), Tolerance given in halves
WithinSoftLimit(o, w) == 2 * w <= o.MaxWidth * (2 + o.Tolerance2)

\* ------------------------------------------------------------------ claims

\* C1 (as claimed): for a non-empty text and MaxWidth > 0 the Contents of the
\* returned lines, joined with single spaces, are the text with runs of
\* spaces collapsed and boundary spaces removed.
C1_Coverage ==
    (Done /\ text # <<>> /\ opts.MaxWidth > 0)
        => JoinWithSpace(Contents(lines)) = Collapsed(text)

\* C2 (as claimed): with MaxWidth > 0 every returned line is at most
\* MaxWidth * (1 + Tolerance) wide, unless it is a single word fragment (it
\* holds no space) that alone is wider than that.
C2_SoftWidthBound ==
    (Done /\ opts.MaxWidth > 0) =>
        \A k \in 1..Len(lines) :
            \/ WithinSoftLimit(opts, lines[k].Width)
            \/ \A j \in 1..Len(lines[k].Content) : lines[k].Content[j] # " "

\* C3 (as claimed, for MaxWidth > 0): every returned line is made of whole
\* words of the input, and a text that is one word wider than the limit
\* MaxWidth * (1 + Tolerance) comes back as that one line.
C3_NoMidFragmentSplit ==
    (Done /\ opts.MaxWidth > 0) =>
        /\ \A k \in 1..Len(lines) :
               \A j \in 1..Len(Words(lines[k].Content)) :
                   \E m \in 1..Len(Words(text)) :
                       Words(lines[k].Content)[j] = Words(text)[m]
        /\ (Len(Words(text)) = 1 /\ ~WithinSoftLimit(opts, Width(Words(text)[1])))
               => Contents(lines) = Words(text)

\* The break position just past the last word box.
LastBreak(bx) == CHOOSE p \in 0..Len(bx) :
    /\ p > 0 => ~bx[p].isGlue
    /\ \A q \in (p + 1)..Len(bx) : bx[q].isGlue
IsDefault(o) == o = DefaultKnuthPlassOptions(o.MaxWidth)
WordsFit(t, o) == \A k \in 1..Len(Words(t)) : Width(Words(t)[k]) <= o.MaxWidth
NoLineOver(ls, o) == \A k \in 1..Len(ls) : ls[k].Width <= o.MaxWidth
OneWholeLine(ls, t) ==
    Len(ls) = 1 /\ ls[1].Content = t /\ ls[1].Width = Width(t)

\* C4 (as claimed): with DefaultKnuthPlassOptions(MaxWidth), for any text
\* whose words are all at most MaxWidth wide, no returned line is wider than
\* MaxWidth and at least one line is returned.
C4_DefaultWidthBound_AnyText ==
    (Done /\ IsDefault(opts) /\ WordsFit(text, opts))
        => (Len(lines) >= 1 /\ NoLineOver(lines, opts))

\* C4 (amended): with DefaultKnuthPlassOptions(MaxWidth), for any text that
\* holds at least one word and whose words are all at most MaxWidth wide, no
\* returned line is wider than MaxWidth and at least one line is returned.
C4_DefaultWidthBound ==
    (Done /\ IsDefault(opts) /\ HasWord(text) /\ WordsFit(text, opts))
        => (Len(lines) >= 1 /\ NoLineOver(lines, opts))

C4_Witness ==
    /\ Done /\ IsDefault(opts) /\ HasWord(text) /\ WordsFit(text, opts)
    /\ Len(Words(text)) >= 2
    /\ Len(lines) >= 2
    /\ \E k \in 1..Len(lines) : lines[k].Width = opts.MaxWidth

\* C5 (as claimed, for a text that holds a word): when the measured width of
\* the whole text is at most MaxWidth, exactly one line is returned and its
\* Content is the text with leading and trailing white space trimmed.
C5_ShortText ==
    (Done /\ HasWord(text) /\ Width(text) <= opts.MaxWidth)
        => (Len(lines) = 1 /\ lines[1].Content = TrimSpace(text))

\* C6: for the empty string and for a text of spaces only, textToBoxes
\* yields no word fragment (no fragment at all for the empty string) and
\* WrapKnuthPlass returns, with zero lines.
C6_EmptyAndSpaces ==
    (pc # "call" /\ ~HasWord(text)) =>
        /\ \A k \in 1..Len(boxes) : boxes[k].isGlue
        /\ text = <<>> => boxes = <<>>
        /\ Done
        /\ lines = <<>>

C6_Witness ==
    Done /\ ~HasWord(text) /\ Len(text) >= 2 /\ boxes = <<>> /\ lines = <<>>

PenaltiesAboveMinusBadness(o) ==
    /\ o.LinePenalty > 0 - BadnessFactor
    /\ o.LinePenalty + o.HyphenPenalty > 0 - BadnessFactor

C8_InfeasibleFallsBack ==
    (Searched /\ Len(nodes) = 1) =>
        /\ positions = <<>>
        /\ pc # "materialize"
        /\ Done => lines = Wrap(text, opts.MaxWidth)

C8_Witness ==
    /\ Done /\ opts.MaxWidth > 0 /\ Len(boxes) = 1 /\ Len(nodes) = 1
    /\ ~WithinSoftLimit(opts, boxes[1].width)
    /\ positions = <<>>
    /\ Len(lines) >= 2

\* C9 (as claimed, for MaxWidth > 0): when the fragments admit a feasible
\* breaking (the search emitted a candidate that ends just past the last
\* word), the returned positions are not empty and the last one is just past
\* the last word.
C9_LastPositionCoversAll ==
    (/\ Searched /\ opts.MaxWidth > 0
     /\ \E n \in 1..Len(nodes) : nodes[n].position = LastBreak(boxes))
        => (positions # <<>> /\ positions[Len(positions)] = LastBreak(boxes))

\* C10: the positions returned by findOptimalBreakpoints are all above 0 and
\* strictly increasing.
C10_MonotonicPositions ==
    Searched =>
        \A k \in 1..Len(positions) :
            /\ positions[k] > 0
            /\ k < Len(positions) => positions[k] < positions[k + 1]

C10_Witness ==
    Searched /\ Len(positions) >= 2 /\ positions[1] < positions[2]

\* The lines came from breakpointsToLines.
Materialized == Done /\ positions # <<>>

\* C11: every returned break position p has 1 <= p <= len(boxes) and lies
\* right after a word: boxes[p-1] (the p-th box) is not glue.
C11_BreakAfterWord ==
    Searched =>
        \A k \in 1..Len(positions) :
            /\ 1 <= positions[k]
            /\ positions[k] <= Len(boxes)
            /\ ~boxes[positions[k]].isGlue

C11_Witness ==
    /\ Searched /\ Len(positions) >= 2
    /\ \E k \in 1..Len(boxes) : boxes[k].isGlue
    /\ positions[Len(positions)] = Len(boxes)

\* C12 (as claimed): the lines of breakpointsToLines are ordered and do not
\* overlap (Start < End <= the next line's Start), and every index of a
\* non-space rune of the text lies in [Start, End) of exactly one line.
C12_OrderedCovering ==
    Materialized =>
        /\ \A k \in 1..Len(lines) :
               /\ lines[k].Start < lines[k].End
               /\ k < Len(lines) => lines[k].End <= lines[k + 1].Start
        /\ \A x \in 0..(Len(text) - 1) :
               text[x + 1] # " " =>
                   Cardinality({k \in 1..Len(lines) :
                                   lines[k].Start <= x /\ x < lines[k].End}) = 1

\* C13 (as claimed): for every line of breakpointsToLines, Content is the
\* runes of the text from Start up to End.
C13_ContentIsSlice ==
    Materialized =>
        \A k \in 1..Len(lines) :
            /\ 0 <= lines[k].Start
            /\ lines[k].End <= Len(text)
            /\ lines[k].Content = Slice(text, lines[k].Start, lines[k].End)

\* C14 (as claimed): every returned line has a Content that is not empty and
\* neither starts nor ends with white space, and its Width is the measured
\* width of that Content.
C14_TrimmedLines ==
    Done =>
        \A k \in 1..Len(lines) :
            /\ lines[k].Content # <<>>
            /\ TrimSpace(lines[k].Content) = lines[k].Content
            /\ lines[k].Width = Width(lines[k].Content)

\* The words of all lines, in order.
RECURSIVE WordsOfLines(_)
WordsOfLines(ls) ==
    IF ls = <<>> THEN <<>> ELSE Words(Head(ls).Content) \o WordsOfLines(Tail(ls))

\* C15 (as claimed): breakpointsToLines, given the boxes of the text and
\* strictly increasing break positions that follow words, neither drops nor
\* duplicates runes and ends each line at the end of the word its break
\* position names: the words of the lines are the words of the text, and the
\* line of the k-th break ends with the word of box positions[k].
C15_NoDropNoDuplicate ==
    Materialized =>
        /\ WordsOfLines(lines) = Words(text)
        /\ Len(lines) >= Len(positions)
        /\ \A k \in 1..Len(positions) :
               LET ws == Words(lines[k].Content)
               IN  ws # <<>> /\ ws[Len(ws)] = boxes[positions[k]].content

\* What is left to do: boxes to visit, then selection and line building.
Remaining ==
    CASE pc = "call" -> 2 * MaxLen + 4
      [] pc = "search" -> (Len(boxes) - i) + 3
      [] pc \in {"fallback", "materialize"} -> 1
      [] OTHER -> 0

\* The bounds checks Go makes in findOptimalBreakpoints at the current state.
SearchInRange ==
    /\ 0 <= i /\ i <= Len(boxes)
    /\ \A k \in 1..Len(boxes) : Len(boxes[k].content) >= 1
    /\ active # <<>>
    /\ \A k \in 1..Len(active) : active[k] \in 1..Len(nodes)
    /\ \A n \in 1..Len(nodes) :
           /\ nodes[n].prev \in 0..(n - 1)
           /\ nodes[n].position \in 0..Len(boxes)

\* C18: the call runs to completion without a crash. Until it has returned a
\* step is possible; every step of the forward pass moves to the next box (each
\* box is visited once) and every step brings the return nearer; the chain of
\* prev pointers is finite; no index or slice of findOptimalBreakpoints or
\* breakpointsToLines is out of range; a text with a word gets a line.
C18_RunsToCompletion ==
    /\ [](~Done => ENABLED Next)
    /\ [](pc = "search" => SearchInRange)
    /\ [](pc = "materialize" => SlicesInRange(text, boxes, positions, 0))
    /\ [](Done /\ HasWord(text) => Len(lines) >= 1)
    /\ [][/\ Remaining' < Remaining
          /\ (pc = "search" /\ pc' = "search") => i' = i + 1]_vars

C18_Witness ==
    /\ Materialized /\ Len(positions) >= 2 /\ Len(lines) >= 2
    /\ opts.Tolerance2 = 4
    /\ Len(Words(text)) < Len(Split(text))

\* C19: calculateFitness splits the ratios into exactly four classes:
\* 0 iff ratio < -0.5, 1 iff -0.5 <= ratio <= 0.5, 2 iff 0.5 < ratio <= 1.0,
\* 3 iff ratio > 1.0.
C19_FitnessPartition ==
    fitnessResult # <<>> =>
        LET r == fitnessResult[1]
            d == Den(opts)
        IN  /\ r \in 0..3
            /\ r = 0 <=> 2 * ratio < 0 - d
            /\ r = 1 <=> (0 - d <= 2 * ratio /\ 2 * ratio <= d)
            /\ r = 2 <=> (d < 2 * ratio /\ ratio <= d)
            /\ r = 3 <=> ratio > d

\* The ratio is exactly 1.0, the closed end of class 2.
C19_Witness == fitnessResult = <<2>> /\ ratio = Den(opts)

\* The ratio lies outside [-1, tolerance].
OutsideTolerance == ratio < 0 - Den(opts) \/ 2 * ratio > opts.Tolerance2 * Den(opts)

\* C20 (as claimed): calculateBadness returns 10000 exactly when ratio < -1 or
\* ratio > tolerance and 100 * |ratio|^3 otherwise; hence a ratio within
\* [-1, tolerance] has badness < 10000 and a ratio outside has badness >= 10000.
C20_Badness_AnyTolerance ==
    badnessResult # <<>> =>
        LET b == badnessResult[1]
            limit == InfinitelyBad * Cube(Den(opts))
        IN  /\ b = limit <=> OutsideTolerance
            /\ ~OutsideTolerance => b = BadnessFactor * Cube(Abs(ratio))
            /\ ~OutsideTolerance => b < limit
            /\ OutsideTolerance => b >= limit

\* tolerance^3 < 10000 / 100, with the tolerance in halves.
ToleranceBelowLimit == BadnessFactor * Cube(opts.Tolerance2) < 8 * InfinitelyBad

\* C20 (amended): calculateBadness returns 10000 exactly when ratio < -1 or
\* ratio > tolerance and 100 * |ratio|^3 otherwise; a ratio outside
\* [-1, tolerance] has badness >= 10000, and for a tolerance below the cube
\* root of 100 a ratio within [-1, tolerance] has badness < 10000.
C20_Badness ==
    badnessResult # <<>> =>
        LET b == badnessResult[1]
            limit == InfinitelyBad * Cube(Den(opts))
        IN  /\ b = limit <=> OutsideTolerance
            /\ ~OutsideTolerance => b = BadnessFactor * Cube(Abs(ratio))
            /\ (~OutsideTolerance /\ ToleranceBelowLimit) => b < limit
            /\ OutsideTolerance => b >= limit

\* The ratio is exactly the tolerance 2.0, the closed end of the feasible range.
C20_Witness ==
    /\ badnessResult # <<>> /\ opts.Tolerance2 = 4
    /\ 2 * ratio = opts.Tolerance2 * Den(opts)
    /\ badnessResult[1] = 8 * BadnessFactor * Cube(Den(opts))

\* The results a call can return when it runs alone from the locals s.
RECURSIVE ResultsFrom(_)
ResultsFrom(s) ==
    IF s.pc = "done" THEN {s.lines}
    ELSE UNION {ResultsFrom(n) : n \in CallSteps(s)}

\* The results WrapKnuthPlass(t, o) can return when it runs alone.
AloneResults(t, o) == ResultsFrom(CallState(t, o, "call"))

BothDone == Done /\ other.pc = "done"

\* C16 (as claimed): two calls with the same text and options return the same
\* lines, whatever order the map of pruneBreakpoints is iterated in.
C16_Deterministic ==
    (BothDone /\ other.text = text /\ other.opts = opts) => other.lines = lines

AtWord == pc = "search" /\ i < Len(boxes) /\ ~boxes[i + 1].isGlue

\* opts with another hyphen penalty.
WithHyphenPenalty(o, p) == [o EXCEPT !.HyphenPenalty = p]

\* C21 (as claimed): for a fixed line penalty and badness the demerits of a
\* line that ends after a box are non-decreasing in the break penalty of the
\* box; a negative penalty gives no more demerits than the penalty 0.
C21_PenaltyMonotone ==
    (AtWord /\ boxes[i + 1].content[Len(boxes[i + 1].content)] = "-") =>
        \A k \in 1..Len(active) :
            LET lineWidth == calculateLineWidth(boxes, nodes[active[k]].position, i)
                num == RatioNum(opts, lineWidth)
            IN  (~RatioBelowMinusOne(opts, lineWidth) /\ ~TooBad(opts, num)) =>
                    \A p, q \in HyphenPenalties \cup {boxes[i + 1].penalty} :
                        p <= q =>
                            Demerits(WithHyphenPenalty(opts, p), num, boxes[i + 1])
                                <= Demerits(WithHyphenPenalty(opts, q), num, boxes[i + 1])

\* The pointers of a slice of pointers.
Members(bps) == {bps[k] : k \in 1..Len(bps)}

\* The classes of two adjacent lines are more than one step apart.
FarApart(f, g) == f - g > 1 \/ g - f > 1

\* C22: every candidate emitted from the active candidate a at the word index
\* i has position i + 1, line a.line + 1, prev a and the demerits
\* a.demerits + (LinePenalty + badness + breakPenalty)^2, plus 100 exactly when
\* FitnessClass is on and its class is more than one step from the class of a.
C22_EmittedCandidate ==
    [][AtWord =>
          \A n \in (Len(nodes) + 1)..Len(nodes') :
              LET c == nodes'[n]
                  a == nodes[c.prev]
                  d3 == Cube(Den(opts))
                  sum == (opts.LinePenalty + BreakPenalty(opts, boxes[i + 1])) * d3
                         + calculateBadness(opts, c.ratio)
                  extra == IF opts.FitnessClass /\ FarApart(c.fitness, a.fitness)
                           THEN FitnessPenalty * d3 * d3 ELSE 0
              IN  /\ c.prev \in Members(active)
                  /\ c.position = i + 1
                  /\ c.line = a.line + 1
                  /\ c.demerits = a.demerits + sum * sum + extra]_vars

\* A candidate that carries the fitness penalty has been emitted.
C22_Witness ==
    /\ opts.FitnessClass
    /\ \E n \in 2..Len(nodes) : FarApart(nodes[n].fitness, nodes[nodes[n].prev].fitness)

\* C23: after every prune step the active set holds at most one candidate per
\* line number, and the one kept for a line number has the lowest demerits of
\* all candidates of that line number that were active or emitted in the step.
C23_PruneKeepsBest ==
    /\ [](\A k, l \in 1..Len(active) :
              k # l => nodes[active[k]].line # nodes[active[l]].line)
    /\ [][(AtWord /\ Len(nodes') > Len(nodes)) =>
              LET merged == Members(active) \cup ((Len(nodes) + 1)..Len(nodes'))
              IN  /\ Members(active') \subseteq merged
                  /\ \A m \in merged :
                         \E k \in Members(active') :
                             /\ nodes'[k].line = nodes'[m].line
                             /\ nodes'[k].demerits <= nodes'[m].demerits]_vars

\* A candidate was discarded for a cheaper one of its line number.
C23_Witness ==
    \E n \in 1..Len(nodes) : \E k \in Members(active) :
        /\ n \notin Members(active)
        /\ nodes[k].line = nodes[n].line
        /\ nodes[k].demerits < nodes[n].demerits

\* The candidates on the chain of prev pointers from node (a pointer).
RECURSIVE ChainOf(_, _)
ChainOf(heap, node) ==
    IF node = 0 THEN {} ELSE {node} \cup ChainOf(heap, heap[node].prev)

\* C24 (as claimed): a candidate discarded by pruning is not referenced again:
\* it is not the predecessor of a candidate of the active set, and it is not on
\* the chain followed back from the candidate selected at the end.
C24_PrunedNeverReferenced ==
    /\ \A k \in Members(active) : nodes[k].prev \in {0} \cup Members(active)
    /\ Searched => ChainOf(nodes, SelectBestNode(nodes, active)) \subseteq Members(active)

\* C25: the predecessor of every candidate has a strictly smaller position, so
\* the chains of prev pointers have no cycle and end at the start breakpoint,
\* and the line number of a candidate is the number of prev links from it
\* back to the start breakpoint.
C25_ChainsBackward ==
    \A n \in 1..Len(nodes) :
        IF n = 1 THEN nodes[n] = Sentinel
        ELSE /\ nodes[n].prev \in 1..(n - 1)
             /\ nodes[nodes[n].prev].position < nodes[n].position
             /\ 1 \in ChainOf(nodes, n)
             /\ nodes[n].line = Cardinality(ChainOf(nodes, n)) - 1

\* A candidate two links away from the start breakpoint has been emitted.
C25_Witness ==
    \E n \in 1..Len(nodes) : nodes[n].line = 2 /\ nodes[nodes[n].prev].prev = 1

\* C26 (as claimed): the Hyphenate flag is not consulted, so two searches that
\* differ in Hyphenate only return the same break positions.
C26_HyphenateIgnored ==
    (Searched /\ other.pc \in {"fallback", "materialize", "done"}
              /\ other.text = text
              /\ other.opts = [opts EXCEPT !.Hyphenate = ~opts.Hyphenate]) =>
        other.positions = positions

\* C27 (as claimed): the position of every box of textToBoxes is the rune index
\* at which its content starts in the text; words and glue alternate, starting
\* with a word; every glue box has the width of one space.
C27_BoxPositions ==
    pc # "call" =>
        \A k \in 1..Len(boxes) :
            /\ boxes[k].position + Len(boxes[k].content) <= Len(text)
            /\ Slice(text, boxes[k].position,
                     boxes[k].position + Len(boxes[k].content)) = boxes[k].content
            /\ boxes[k].isGlue <=> k % 2 = 0
            /\ boxes[k].isGlue => boxes[k].width = Width(<<" ">>)

\* C28: from the start of the forward pass to the final selection the active
\* set is not empty: the start breakpoint (position 0, line 0, demerits 0) is
\* the only candidate of line 0 and is a member of the active set after every
\* prune and at the final selection.
C28_SentinelStays ==
    (pc \in {"search", "fallback", "materialize"} \/ (Done /\ boxes # <<>>)) =>
        /\ active # <<>>
        /\ nodes[1] = Sentinel
        /\ 1 \in Members(active)
        /\ \A n \in 2..Len(nodes) : nodes[n].line > 0

\* The final selection is reached after a prune that discarded a candidate.
C28_Witness ==
    /\ pc = "search" /\ i >= Len(boxes)
    /\ Len(active) >= 3 /\ Len(nodes) > Len(active)

WithTolerance(o, t) == [o EXCEPT !.Tolerance2 = t]

\* C30: for MaxWidth > 0 every ratio the search computes is <= 1, so no
\* candidate has fitness class 3, no underfull line is rejected when
\* Tolerance >= 1, all tolerances >= 1 give the same emitted candidates, and an
\* overfull line is accepted up to lineWidth = 2 * MaxWidth under every
\* tolerance (and rejected beyond).
C30_RatioAtMostOne ==
    opts.MaxWidth > 0 =>
        /\ \A n \in 2..Len(nodes) :
               nodes[n].ratio <= Den(opts) /\ nodes[n].fitness # 3
        /\ AtWord =>
               /\ \A k \in 1..Len(active) :
                      LET lineWidth == calculateLineWidth(boxes, nodes[active[k]].position, i)
                          emitted == NewBreakpoint(opts, boxes, nodes, active[k], i)
                      IN  /\ RatioNum(opts, lineWidth) <= Den(opts)
                          /\ (lineWidth <= opts.MaxWidth /\ opts.Tolerance2 >= 2)
                                 => emitted # <<>>
                          /\ (lineWidth >= opts.MaxWidth /\ lineWidth <= 2 * opts.MaxWidth)
                                 => emitted # <<>>
                          /\ lineWidth > 2 * opts.MaxWidth => emitted = <<>>
               /\ opts.Tolerance2 >= 2 =>
                      \A t \in {u \in Tolerances : u >= 2} :
                          NewActive(WithTolerance(opts, t), boxes, nodes, active, i)
                              = NewActive(opts, boxes, nodes, active, i)

\* A line of width 2 * MaxWidth (ratio -1) was accepted under the tolerance 0.5.
C30_Witness ==
    /\ opts.MaxWidth > 0 /\ opts.Tolerance2 = 1
    /\ \E n \in 2..Len(nodes) : nodes[n].ratio = 0 - Den(opts)

====
